---------------------------- MODULE Spec2Model ----------------------------
(***************************************************************************)
(* The inventory facade of steamworks-rs (src/src/inventory.rs) over the   *)
(* external ISteamInventory service.  The facade functions are operators   *)
(* of the answers the service gives to their external calls; the actions   *)
(* draw those answers, apply the facade function and record the outcome    *)
(* in `last`.  The service's handle table, its event queue and the event   *)
(* records already delivered to the listener are the remaining state.      *)
(***************************************************************************)
EXTENDS Integers, Sequences, FiniteSets, TLC

(* ------------------------------ bounds --------------------------------- *)
\* Number of result handles the service can issue.
MaxHandles == 2
\* Longest list (definition ids, result items) the service holds.
MaxCount == 1
\* Longest property value, terminator included, the service holds.
MaxValueLen == 2

(* --------------------------- value domains ----------------------------- *)
k_SteamInventoryResultInvalid == -1

Handles == 1..MaxHandles
HandleArgs == Handles \cup {k_SteamInventoryResultInvalid}

\* sys::SteamItemDef_t values the service's catalog may hold.
ItemDefs == {10, 20}

\* sys::SteamItemDetails_t values a result set may hold.
RawItems ==
    { [m_itemId |-> 1, m_iDefinition |-> 10, m_unQuantity |-> 1, m_unFlags |-> 0],
      [m_itemId |-> 2, m_iDefinition |-> 20, m_unQuantity |-> 2, m_unFlags |-> 256] }

\* Bytes of property values: the terminator NUL, and as content 'A' and the
\* two bytes of U+00E9.
ContentBytes == {65, 195, 169}
Bytes == ContentBytes \cup {0}

\* Property names a caller may pass (as bytes): "", "k", and one with an
\* interior NUL.
PropertyNames == { <<>>, <<107>>, <<107, 0>> }

\* EResult codes of a result handle.
FailCodes == {"k_EResultFail", "k_EResultExpired"}

Min(a, b) == IF a <= b THEN a ELSE b

SeqsUpTo(S, n) == UNION { [1..k -> S] : k \in 0..n }

Take(s, n) == SubSeq(s, 1, Min(n, Len(s)))

(* ----------------------------- outcomes -------------------------------- *)
\* What a facade call does to its caller: returns Ok(v), returns Err(e),
\* panics (unwinds through the caller), or runs into undefined behaviour
\* that ends the process.
Ok(v) == [kind |-> "ok", err |-> "", val |-> v]
Err(e) == [kind |-> "err", err |-> e, val |-> <<>>]
Panic(msg) == [kind |-> "panic", err |-> msg, val |-> <<>>]
Abort == [kind |-> "abort", err |-> "undefined behaviour", val |-> <<>>]

\* An output pointer handed to the service: std::ptr::null_mut(), or
\* Vec::as_mut_ptr() of a vector allocated with the given capacity.
null_mut == [null |-> TRUE, cap |-> 0]
as_mut_ptr(capacity) == [null |-> FALSE, cap |-> capacity]

(* ------------------- the external service's calls ---------------------- *)
\* The length/fetch convention shared by GetItemDefinitionIDs,
\* GetItemDefinitionProperty and GetResultItems.  `ok` is whether the call
\* succeeds, `data` what the service holds when the call is made, `size` the
\* in/out count on entry.  With a null pointer the service only reports the
\* required count; with a buffer it reports the count of its data and writes
\* as much of it as the size it was told allows.  On failure the count is
\* left as it was.
LengthFetchCall(ptr, size, ok, data) ==
    IF ~ok THEN [ok |-> FALSE, count |-> size, buf |-> <<>>]
    ELSE IF ptr.null THEN [ok |-> TRUE, count |-> Len(data), buf |-> <<>>]
    ELSE [ok |-> TRUE, count |-> Len(data),
          buf |-> Take(data, Min(size, ptr.cap))]

SteamAPI_ISteamInventory_GetItemDefinitionIDs(ptr, size, ok, data) ==
    LengthFetchCall(ptr, size, ok, data)

SteamAPI_ISteamInventory_GetItemDefinitionProperty(ptr, size, ok, data) ==
    LengthFetchCall(ptr, size, ok, data)

\* GetResultItems succeeds only on a handle whose result is ready with
\* status OK (`st` is the handle's state at the service).
SteamAPI_ISteamInventory_GetResultItems(st, ptr, size, ok, data) ==
    LengthFetchCall(ptr, size, ok /\ st = "ready_ok", data)

\* GetResultStatus: the EResult code of a handle in state `st`, `code` being
\* the code its completion carried.
SteamAPI_ISteamInventory_GetResultStatus(st, code) ==
    CASE st = "pending" -> "k_EResultPending"
      [] st = "ready_ok" -> "k_EResultOK"
      [] st = "ready_failed" -> code
      [] OTHER -> "k_EResultInvalidParam"

\* TriggerItemDrop, ConsumeItem, GetAllItems: on success the service writes
\* the handle it allocated into the out parameter, on failure it leaves the
\* out parameter alone.
HandleCall(result_handle, ok, fresh) ==
    [ok |-> ok, handle |-> IF ok THEN fresh ELSE result_handle]

(* -------------------- Vec::set_len and its misuse ---------------------- *)
\* A length of 32 bits as two 16-bit halves, so that u32::MAX can be written.
usize(n) == [hi |-> 0, lo |-> n]

\* Mutant of wrapping_dec: the terminator is not taken off the length.
wrapping_dec_keeps_terminator(n) == usize(n)

\* value_len - 1 over u32 without overflow checks: 0 wraps to u32::MAX.
wrapping_dec(n) == IF n = 0 THEN [hi |-> 65535, lo |-> 65535] ELSE usize(n - 1)

\* A vector allocated with `cap` elements whose first Len(buf) elements the
\* service wrote, given length n by set_len.  Within the capacity and the
\* part written this is the first n elements.  Beyond it the behaviour is
\* undefined: the process dies (ub.abort) or the vector exposes whatever lies
\* behind the buffer (ub.fill; of a length that does not fit 16 bits only the
\* head is kept).
set_len(buf, cap, n, ub) ==
    IF n.hi = 0 /\ n.lo <= cap /\ n.lo <= Len(buf) THEN Ok(SubSeq(buf, 1, n.lo))
    ELSE IF ub.abort THEN Abort
    ELSE LET shown == IF n.hi = 0 THEN n.lo ELSE Len(buf) + 1
         IN  Ok([i \in 1..shown |-> IF i <= Len(buf) THEN buf[i] ELSE ub.fill])

(* ------------------------ std library pieces --------------------------- *)
\* CString::new: fails on a byte string with an interior NUL.
CString_new(name) == \A i \in 1..Len(name) : name[i] # 0

InRange(b, lo, hi) == lo <= b /\ b <= hi

\* Length of the well-formed UTF-8 sequence at the head of s, 0 when the
\* head is ill-formed (Unicode table 3-7, as std checks it).
Utf8Head(s) ==
    LET n == Len(s)
        c(i, lo, hi) == i <= n /\ InRange(s[i], lo, hi)
    IN  IF n = 0 THEN 0
        ELSE IF s[1] <= 127 THEN 1
        ELSE IF InRange(s[1], 194, 223) /\ c(2, 128, 191) THEN 2
        ELSE IF s[1] = 224 /\ c(2, 160, 191) /\ c(3, 128, 191) THEN 3
        ELSE IF InRange(s[1], 225, 236) /\ c(2, 128, 191) /\ c(3, 128, 191) THEN 3
        ELSE IF s[1] = 237 /\ c(2, 128, 159) /\ c(3, 128, 191) THEN 3
        ELSE IF InRange(s[1], 238, 239) /\ c(2, 128, 191) /\ c(3, 128, 191) THEN 3
        ELSE IF s[1] = 240 /\ c(2, 144, 191) /\ c(3, 128, 191) /\ c(4, 128, 191) THEN 4
        ELSE IF InRange(s[1], 241, 243) /\ c(2, 128, 191) /\ c(3, 128, 191)
                /\ c(4, 128, 191) THEN 4
        ELSE IF s[1] = 244 /\ c(2, 128, 143) /\ c(3, 128, 191) /\ c(4, 128, 191) THEN 4
        ELSE 0

RECURSIVE IsUtf8(_)
IsUtf8(s) ==
    IF Len(s) = 0 THEN TRUE
    ELSE LET k == Utf8Head(s)
         IN  k > 0 /\ IsUtf8(SubSeq(s, k + 1, Len(s)))

\* String::from_utf8(bytes).expect(..): the bytes unchanged as a String, or
\* a panic.
from_utf8_expect(bytes) ==
    IF IsUtf8(bytes) THEN Ok(bytes)
    ELSE Panic("Failed to convert value to string")

(* ------------------------ the facade functions ------------------------- *)
\* Each is an operator of the answers the service gives; it yields the
\* outcome `res`, the external calls made (`calls`, in order), the capacity
\* allocated for the output buffer (`cap`) and the length given to it
\* (`len`), the last two being 0 where the code does not get that far.

load_item_definitions(ok) ==
    [res |-> IF ok THEN Ok(<<>>) ELSE Err("LoadItemDefinitionsFailed"),
     calls |-> << [ok |-> ok] >>]

\* Mutant of get_item_definitions_ids: a failed second call still returns
\* what the buffer holds.
get_item_definitions_ids_partial(ok1, data1, ok2, data2, ub) ==
    LET p1 == SteamAPI_ISteamInventory_GetItemDefinitionIDs(null_mut, 0, ok1, data1)
    IN  IF ~p1.ok
        THEN [res |-> Err("GetItemDefinitionIDsFailed"), calls |-> <<p1>>,
              cap |-> 0, len |-> usize(0)]
        ELSE
          LET item_defs_count == p1.count
              p2 == SteamAPI_ISteamInventory_GetItemDefinitionIDs(
                        as_mut_ptr(item_defs_count), item_defs_count, ok2, data2)
          IN  [res |-> IF p2.ok
                       THEN set_len(p2.buf, item_defs_count, usize(p2.count), ub)
                       ELSE Ok(p2.buf),
               calls |-> <<p1, p2>>, cap |-> item_defs_count,
               len |-> usize(p2.count)]

get_item_definitions_ids(ok1, data1, ok2, data2, ub) ==
    LET p1 == SteamAPI_ISteamInventory_GetItemDefinitionIDs(null_mut, 0, ok1, data1)
    IN  IF ~p1.ok
        THEN [res |-> Err("GetItemDefinitionIDsFailed"), calls |-> <<p1>>,
              cap |-> 0, len |-> usize(0)]
        ELSE
          LET item_defs_count == p1.count
              p2 == SteamAPI_ISteamInventory_GetItemDefinitionIDs(
                        as_mut_ptr(item_defs_count), item_defs_count, ok2, data2)
          IN  IF p2.ok
              THEN [res |-> set_len(p2.buf, item_defs_count, usize(p2.count), ub),
                    calls |-> <<p1, p2>>, cap |-> item_defs_count,
                    len |-> usize(p2.count)]
              ELSE [res |-> Err("GetItemDefinitionIDsFailed"), calls |-> <<p1, p2>>,
                    cap |-> item_defs_count, len |-> usize(0)]

\* value_len - 1 over u32 when value_len = 0 panics in a build with overflow
\* checks (`checked`) and wraps otherwise.
get_item_definition_property(property_name, ok1, data1, ok2, data2, checked, ub) ==
    IF ~CString_new(property_name)
    THEN [res |-> Panic("CString::new failed"), calls |-> <<>>, cap |-> 0,
          len |-> usize(0)]
    ELSE
      LET p1 == SteamAPI_ISteamInventory_GetItemDefinitionProperty(
                    null_mut, 0, ok1, data1)
      IN  IF ~p1.ok
          THEN [res |-> Err("GetItemDefinitionPropertyFailed"), calls |-> <<p1>>,
                cap |-> 0, len |-> usize(0)]
          ELSE
            LET value_len == p1.count
                p2 == SteamAPI_ISteamInventory_GetItemDefinitionProperty(
                          as_mut_ptr(value_len), value_len, ok2, data2)
            IN  IF ~p2.ok
                THEN [res |-> Err("GetItemDefinitionPropertyFailed"),
                      calls |-> <<p1, p2>>, cap |-> value_len, len |-> usize(0)]
                ELSE IF p2.count = 0 /\ checked
                THEN [res |-> Panic("attempt to subtract with overflow"),
                      calls |-> <<p1, p2>>, cap |-> value_len, len |-> usize(0)]
                ELSE
                  LET new_len == wrapping_dec(p2.count)
                      buffer == set_len(p2.buf, value_len, new_len, ub)
                  IN  [res |-> IF buffer.kind = "ok" THEN from_utf8_expect(buffer.val)
                               ELSE buffer,
                       calls |-> <<p1, p2>>, cap |-> value_len, len |-> new_len]

\* Mutant of trigger_item_drop: the handle is returned whatever the call
\* reported.
trigger_item_drop_unchecked(ok, fresh) ==
    LET r == HandleCall(k_SteamInventoryResultInvalid, ok, fresh)
    IN  [res |-> Ok(<<r.handle>>), calls |-> <<r>>]

trigger_item_drop(ok, fresh) ==
    LET r == HandleCall(k_SteamInventoryResultInvalid, ok, fresh)
    IN  [res |-> IF r.ok THEN Ok(<<r.handle>>) ELSE Err("TriggerItemDropFailed"),
         calls |-> <<r>>]

consume_item(ok, fresh) ==
    LET r == HandleCall(k_SteamInventoryResultInvalid, ok, fresh)
    IN  [res |-> IF r.ok THEN Ok(<<r.handle>>) ELSE Err("OperationFailed"),
         calls |-> <<r>>]

\* Mutant of get_all_items: a failure is reported as a success without a
\* handle.
get_all_items_swallows(ok, fresh) ==
    LET r == HandleCall(k_SteamInventoryResultInvalid, ok, fresh)
    IN  [res |-> IF r.ok THEN Ok(<<r.handle>>) ELSE Ok(<<>>), calls |-> <<r>>]

get_all_items(ok, fresh) ==
    LET r == HandleCall(k_SteamInventoryResultInvalid, ok, fresh)
    IN  [res |-> IF r.ok THEN Ok(<<r.handle>>) ELSE Err("OperationFailed"),
         calls |-> <<r>>]

\* Mutant of get_result_status: only k_EResultFail counts as a failure.
get_result_status_only_fail(status) ==
    [res |-> IF status # "k_EResultFail" THEN Ok(<<status>>)
             ELSE Err("GetResultStatusFailed"),
     calls |-> << [status |-> status] >>]

get_result_status(status) ==
    [res |-> IF status = "k_EResultOK" THEN Ok(<<status>>)
             ELSE Err("GetResultStatusFailed"),
     calls |-> << [status |-> status] >>]

\* The field-by-field conversion of sys::SteamItemDetails_t.
SteamItemDetails(details) ==
    [item_id |-> details.m_itemId, definition |-> details.m_iDefinition,
     quantity |-> details.m_unQuantity, flags |-> details.m_unFlags]

\* Mutant of get_result_items: the results of the two calls are not looked
\* at.
get_result_items_unchecked(st1, ok1, data1, st2, ok2, data2, ub) ==
    LET p1 == SteamAPI_ISteamInventory_GetResultItems(st1, null_mut, 0, ok1, data1)
        items_count == p1.count
        p2 == SteamAPI_ISteamInventory_GetResultItems(
                  st2, as_mut_ptr(items_count), items_count, ok2, data2)
        items_array == set_len(p2.buf, items_count, usize(p2.count), ub)
    IN  [res |-> IF items_array.kind = "ok"
                 THEN Ok([i \in 1..Len(items_array.val) |->
                             SteamItemDetails(items_array.val[i])])
                 ELSE items_array,
         calls |-> <<p1, p2>>, cap |-> items_count, len |-> usize(p2.count)]

get_result_items(st1, ok1, data1, st2, ok2, data2, ub) ==
    LET p1 == SteamAPI_ISteamInventory_GetResultItems(st1, null_mut, 0, ok1, data1)
    IN  IF ~p1.ok
        THEN [res |-> Err("GetResultItemsFailed"), calls |-> <<p1>>,
              cap |-> 0, len |-> usize(0)]
        ELSE
          LET items_count == p1.count
              p2 == SteamAPI_ISteamInventory_GetResultItems(
                        st2, as_mut_ptr(items_count), items_count, ok2, data2)
          IN  IF p2.ok
              THEN LET items_array == set_len(p2.buf, items_count, usize(p2.count), ub)
                   IN  [res |-> IF items_array.kind = "ok"
                                THEN Ok([i \in 1..Len(items_array.val) |->
                                            SteamItemDetails(items_array.val[i])])
                                ELSE items_array,
                        calls |-> <<p1, p2>>, cap |-> items_count,
                        len |-> usize(p2.count)]
              ELSE [res |-> Err("GetResultItemsFailed"), calls |-> <<p1, p2>>,
                    cap |-> items_count, len |-> usize(0)]

\* Mutant of destroy_result: the sentinel is not passed on to the service.
destroy_result_skips_invalid(result_handle) ==
    [res |-> Ok(<<>>),
     calls |-> IF result_handle = k_SteamInventoryResultInvalid THEN <<>>
               ELSE << [handle |-> result_handle] >>]

\* The single DestroyResult call; the function returns nothing.
destroy_result(result_handle) ==
    [res |-> Ok(<<>>), calls |-> << [handle |-> result_handle] >>]

(* --------------------------- event records ----------------------------- *)
\* SteamError::from(EResult), for the codes a result can fail with.
SteamError_from(m_result) ==
    CASE m_result = "k_EResultFail" -> "Generic"
      [] m_result = "k_EResultExpired" -> "Expired"
      [] m_result = "k_EResultInvalidParam" -> "InvalidParameter"
      [] m_result = "k_EResultPending" -> "Pending"
      [] OTHER -> "Generic"

\* Mutant of SteamInventoryResultReady_from_raw: the handle is not copied.
SteamInventoryResultReady_from_raw_drops_handle(raw) ==
    [handle |-> k_SteamInventoryResultInvalid,
     result |-> IF raw.m_result = "k_EResultOK" THEN Ok(<<>>)
                ELSE Err(SteamError_from(raw.m_result))]

\* Mutant of SteamInventoryResultReady_from_raw: the status is not looked at.
SteamInventoryResultReady_from_raw_always_ok(raw) ==
    [handle |-> raw.m_handle, result |-> Ok(<<>>)]

\* SteamInventoryResultReady::from_raw
SteamInventoryResultReady_from_raw(raw) ==
    [handle |-> raw.m_handle,
     result |-> IF raw.m_result = "k_EResultOK" THEN Ok(<<>>)
                ELSE Err(SteamError_from(raw.m_result))]

(* ------------------------------- state --------------------------------- *)
VARIABLES
    results,    \* the service's table of result handles: state, code, items
    queue,      \* raw SteamInventoryResultReady_t events not yet pumped (the
                \* pump drains them all, so their order is not kept)
    delivered,  \* SteamInventoryResultReady records handed to the listener
    last,       \* the facade call whose outcome the caller holds: op, arg,
                \* outcome, external calls; op "none" between calls
    test        \* tests::test_get_result_items: its position (pc), the
                \* iterations of its loop begun (iter), the channel of the
                \* listener (rx) and the handle it received (handle)

vars == <<results, queue, delivered, last, test>>

ItemSeqs == SeqsUpTo(RawItems, MaxCount)
DefSeqs == SeqsUpTo(ItemDefs, MaxCount)
\* A property value at the service is a C string, its terminator included,
\* or nothing at all (count 0).
PropertyValues ==
    {<<>>} \cup { Append(c, 0) : c \in SeqsUpTo(ContentBytes, MaxValueLen - 1) }

\* What the service holds when only the length of it is asked for.
OfLength(S, n) == { [i \in 1..n |-> CHOOSE x \in S : TRUE] }

\* The ways undefined behaviour may come out, over elements of S; a single
\* way where the call cannot run into it.
UBs(S, reachable) ==
    LET died == [abort |-> TRUE, fill |-> CHOOSE x \in S : TRUE]
    IN  IF reachable THEN {died} \cup { [abort |-> FALSE, fill |-> x] : x \in S }
        ELSE {died}

Unissued == [st |-> "unissued", code |-> "k_EResultInvalidParam", items |-> <<>>]

StateOf(h) == IF h \in Handles THEN results[h].st ELSE "unissued"
CodeOf(h) == IF h \in Handles THEN results[h].code ELSE "k_EResultInvalidParam"
ItemsOf(h) == IF h \in Handles THEN results[h].items ELSE <<>>

ReadyOk(h) == StateOf(h) = "ready_ok"
Live(h) == StateOf(h) \in {"pending", "ready_ok", "ready_failed"}

\* The handle the service would allocate next; the sentinel when the table
\* is full.
FreshHandle ==
    IF \E h \in Handles : results[h].st = "unissued"
    THEN CHOOSE h \in Handles :
            /\ results[h].st = "unissued"
            /\ \A g \in Handles : results[g].st = "unissued" => h <= g
    ELSE k_SteamInventoryResultInvalid

Idle == [op |-> "none", arg |-> <<>>, res |-> Ok(<<>>), calls |-> <<>>]

\* The locals of the test while it is not the caller.
NotRunning ==
    [pc |-> "none", iter |-> 0, rx |-> {},
     handle |-> k_SteamInventoryResultInvalid]

Init ==
    /\ results = [h \in Handles |-> Unissued]
    /\ queue = {}
    /\ delivered = {}
    /\ last = Idle
    /\ test = NotRunning

\* The caller is single-threaded: it makes a call when it holds no outcome.
CallerIdle == last = Idle

Record(op, arg, out) == last' = [op |-> op, arg |-> arg] @@ out

(* ------------------------------ actions -------------------------------- *)
Call_load_item_definitions ==
    /\ CallerIdle
    /\ \E ok \in BOOLEAN :
          Record("load_item_definitions", <<>>, load_item_definitions(ok))
    /\ UNCHANGED <<results, queue, delivered, test>>

Call_get_item_definitions_ids ==
    /\ CallerIdle
    /\ \E ok1 \in BOOLEAN :
       \E n1 \in (IF ok1 THEN 0..MaxCount ELSE {0}) :
       \E data1 \in OfLength(ItemDefs, n1) :
       \E ok2 \in (IF ok1 THEN BOOLEAN ELSE {FALSE}) :
       \E data2 \in (IF ok2 THEN DefSeqs ELSE {<<>>}) :
       \E ub \in UBs(ItemDefs, Len(data2) > n1) :
          Record("get_item_definitions_ids", <<>>,
                 get_item_definitions_ids(ok1, data1, ok2, data2, ub))
    /\ UNCHANGED <<results, queue, delivered, test>>

Call_get_item_definition_property ==
    /\ CallerIdle
    /\ \E property_name \in PropertyNames :
       \E ok1 \in (IF CString_new(property_name) THEN BOOLEAN ELSE {FALSE}) :
       \E n1 \in (IF ok1 THEN 0..MaxValueLen ELSE {0}) :
       \E data1 \in OfLength(Bytes, n1) :
       \E ok2 \in (IF ok1 THEN BOOLEAN ELSE {FALSE}) :
       \E data2 \in (IF ok2 THEN PropertyValues ELSE {<<>>}) :
       \E checked \in (IF ok2 /\ Len(data2) = 0 THEN BOOLEAN ELSE {TRUE}) :
       \E ub \in UBs(Bytes, ok2 /\ (Len(data2) = 0 \/ Len(data2) - 1 > n1)) :
          Record("get_item_definition_property", <<property_name>>,
                 get_item_definition_property(property_name, ok1, data1, ok2,
                                              data2, checked, ub))
    /\ UNCHANGED <<results, queue, delivered, test>>

\* The service after a handle-producing call: a successful call allocates
\* the fresh handle in the pending state.
Submit(ok) ==
    IF ok
    THEN results' = [results EXCEPT ![FreshHandle] =
                        [st |-> "pending", code |-> "k_EResultPending",
                         items |-> <<>>]]
    ELSE UNCHANGED results

\* Whether the service may accept: it rejects when its table is full.
Accepts == IF FreshHandle \in Handles THEN BOOLEAN ELSE {FALSE}

Call_trigger_item_drop ==
    /\ CallerIdle
    /\ \E drop_list_definition \in ItemDefs :
       \E ok \in Accepts :
          /\ Record("trigger_item_drop", <<drop_list_definition>>,
                    trigger_item_drop(ok, FreshHandle))
          /\ Submit(ok)
    /\ UNCHANGED <<queue, delivered, test>>

Call_consume_item ==
    /\ CallerIdle
    /\ \E item_consume \in 1..2 :
       \E quantity \in 0..1 :
       \E ok \in Accepts :
          /\ Record("consume_item", <<item_consume, quantity>>,
                    consume_item(ok, FreshHandle))
          /\ Submit(ok)
    /\ UNCHANGED <<queue, delivered, test>>

Call_get_all_items ==
    /\ CallerIdle
    /\ \E ok \in Accepts :
          /\ Record("get_all_items", <<>>, get_all_items(ok, FreshHandle))
          /\ Submit(ok)
    /\ UNCHANGED <<queue, delivered, test>>

\* Mutant of Call_get_result_status: a handle whose status is not OK is
\* released on the error path.
Call_get_result_status_releases ==
    /\ CallerIdle
    /\ \E result_handle \in HandleArgs :
          /\ Record("get_result_status", <<result_handle>>,
                    get_result_status(
                        SteamAPI_ISteamInventory_GetResultStatus(
                            StateOf(result_handle), CodeOf(result_handle))))
          /\ results' = IF Live(result_handle) /\ ~ReadyOk(result_handle)
                        THEN [results EXCEPT ![result_handle].st = "destroyed"]
                        ELSE results
    /\ UNCHANGED <<queue, delivered, test>>

Call_get_result_status ==
    /\ CallerIdle
    /\ \E result_handle \in HandleArgs :
          Record("get_result_status", <<result_handle>>,
                 get_result_status(
                     SteamAPI_ISteamInventory_GetResultStatus(
                         StateOf(result_handle), CodeOf(result_handle))))
    /\ UNCHANGED <<results, queue, delivered, test>>

\* The released entry of the service's table.
Destroyed == [st |-> "destroyed", code |-> "k_EResultInvalidParam", items |-> <<>>]

\* Mutant of Fetch: fetching consumes the result, which the service forgets.
Fetch_consumes(result_handle) ==
    \E ok1 \in BOOLEAN :
       /\ Record("get_result_items", <<result_handle>>,
                 get_result_items(StateOf(result_handle), ok1,
                                  ItemsOf(result_handle),
                                  StateOf(result_handle), ok1,
                                  ItemsOf(result_handle),
                                  [abort |-> TRUE, fill |-> <<>>])
                 @@ [before |-> ItemsOf(result_handle)])
       /\ results' = IF ok1 /\ ReadyOk(result_handle)
                     THEN [results EXCEPT ![result_handle] = Destroyed]
                     ELSE results

\* get_result_items(result_handle) with the service's answers.  Between the
\* two external calls the service may replace the items of a ready result
\* (data2); the replacement stays in the service's table.
Fetch(result_handle) ==
    \E ok1 \in BOOLEAN :
    \E ok2 \in (IF ok1 /\ ReadyOk(result_handle) THEN BOOLEAN ELSE {FALSE}) :
    \E data2 \in (IF ok1 /\ ReadyOk(result_handle) THEN ItemSeqs ELSE {<<>>}) :
    \E ub \in UBs(RawItems, ok2 /\ Len(data2) > Len(ItemsOf(result_handle))) :
       /\ Record("get_result_items", <<result_handle>>,
                 get_result_items(StateOf(result_handle), ok1,
                                  ItemsOf(result_handle),
                                  StateOf(result_handle), ok2, data2, ub)
                 @@ [before |-> ItemsOf(result_handle)])
       /\ results' = IF ok1 /\ ReadyOk(result_handle)
                     THEN [results EXCEPT ![result_handle].items = data2]
                     ELSE results

Call_get_result_items ==
    /\ CallerIdle
    /\ \E result_handle \in HandleArgs : Fetch(result_handle)
    /\ UNCHANGED <<queue, delivered, test>>

\* Mutant of Release: every live handle is released with the one named.
Release_all(result_handle) ==
    /\ Record("destroy_result", <<result_handle>>,
              destroy_result(result_handle)
              @@ [before |-> StateOf(result_handle)])
    /\ results' = IF Live(result_handle)
                  THEN [h \in Handles |->
                          IF Live(h) THEN Destroyed ELSE results[h]]
                  ELSE results

\* destroy_result(result_handle) at the service: DestroyResult releases a
\* live handle; on any other handle value the service has nothing to
\* release.  `before` keeps the state the handle was in at the call.
Release(result_handle) ==
    /\ Record("destroy_result", <<result_handle>>,
              destroy_result(result_handle)
              @@ [before |-> StateOf(result_handle)])
    /\ results' = IF Live(result_handle)
                  THEN [results EXCEPT ![result_handle] = Destroyed]
                  ELSE results

Call_destroy_result ==
    /\ CallerIdle
    /\ \E result_handle \in HandleArgs : Release(result_handle)
    /\ UNCHANGED <<queue, delivered, test>>

\* The service finishes the pending request of handle h, with items or with
\* a failure code, and queues the result-ready event.  The handle stays
\* pending to the caller until the event is delivered: the event mechanism
\* delivers the record of a handle before the handle is fetchable.
Complete(h) ==
    /\ results[h].st = "pending"
    /\ results[h].code = "k_EResultPending"
    /\ \/ \E items \in ItemSeqs :
            /\ results' = [results EXCEPT ![h] =
                  [st |-> "pending", code |-> "k_EResultOK", items |-> items]]
            /\ queue' = queue \cup {[m_handle |-> h, m_result |-> "k_EResultOK"]}
       \/ \E code \in FailCodes :
            /\ results' = [results EXCEPT ![h] =
                  [st |-> "pending", code |-> code, items |-> <<>>]]
            /\ queue' = queue \cup {[m_handle |-> h, m_result |-> code]}

\* Calls are atomic: the service moves between them, so that the state a
\* call leaves is the one observed with its outcome.
ServiceComplete ==
    /\ CallerIdle
    /\ \E h \in Handles : Complete(h)
    /\ UNCHANGED <<delivered, last, test>>

\* The pump: drains the queue, decoding each raw event and handing the
\* record to the listener within the call; the handles of the events
\* delivered become ready.
Pump ==
    /\ delivered' = delivered \cup
          { SteamInventoryResultReady_from_raw(raw) : raw \in queue }
    /\ queue' = {}
    /\ results' = [h \in Handles |->
          IF results[h].st = "pending" /\ (\E raw \in queue : raw.m_handle = h)
          THEN [results[h] EXCEPT !.st =
                   IF results[h].code = "k_EResultOK"
                   THEN "ready_ok" ELSE "ready_failed"]
          ELSE results[h]]

\* Client::run_callbacks
run_callbacks ==
    /\ CallerIdle
    /\ Pump
    /\ UNCHANGED <<last, test>>

\* The caller takes the value or the error it was returned and goes on.  A
\* panic unwinds through the caller and undefined behaviour ends the
\* process: neither is followed by another call.
Caller_continues ==
    /\ ~CallerIdle
    /\ last.res.kind \in {"ok", "err"}
    /\ last' = Idle
    /\ UNCHANGED <<results, queue, delivered, test>>

Next ==
    \/ Call_load_item_definitions
    \/ Call_get_item_definitions_ids
    \/ Call_get_item_definition_property
    \/ Call_trigger_item_drop
    \/ Call_consume_item
    \/ Call_get_all_items
    \/ Call_get_result_status
    \/ Call_get_result_items
    \/ Call_destroy_result
    \/ ServiceComplete
    \/ run_callbacks
    \/ Caller_continues

Spec == Init /\ [][Next]_vars

(* ------------------- tests::test_get_result_items ---------------------- *)
\* for _ in 0..50
LoopBound == 50

\* The test after Client::init, the channel and the listeners: about to
\* call get_all_items.
TestInit ==
    /\ results = [h \in Handles |-> Unissued]
    /\ queue = {}
    /\ delivered = {}
    /\ last = Idle
    /\ test = [NotRunning EXCEPT !.pc = "get_all_items"]

\* The ways the test ends: return, the panic after the loop, a panic of an
\* assert or an unwrap, the end of the process by undefined behaviour.
TestEnded == {"returned", "timed_out", "panicked", "aborted"}

\* let _result = client.inventory().get_all_items(); the outcome is dropped.
test_get_all_items ==
    /\ test.pc = "get_all_items"
    /\ \E ok \in Accepts :
          /\ Record("get_all_items", <<>>, get_all_items(ok, FreshHandle))
          /\ Submit(ok)
    /\ test' = [test EXCEPT !.pc = "for"]
    /\ UNCHANGED <<queue, delivered>>

\* Mutant of test_run_callbacks: the loop does not count its iterations.
test_run_callbacks_uncounted ==
    /\ test.pc = "for"
    /\ Pump
    /\ LET records == { SteamInventoryResultReady_from_raw(raw) : raw \in queue }
       IN  test' = IF \E val \in records : val.result.kind # "ok"
                   THEN [test EXCEPT !.pc = "panicked"]
                   ELSE [test EXCEPT !.pc = "try_recv",
                            !.rx = @ \cup { val.handle : val \in records }]
    /\ UNCHANGED last

\* One more iteration of the loop: client.run_callbacks() and the sleep.
\* The listener, called within the pump, asserts that the record carries
\* success and sends its handle on the channel.
test_run_callbacks ==
    /\ test.pc = "for"
    /\ test.iter < LoopBound
    /\ Pump
    /\ LET records == { SteamInventoryResultReady_from_raw(raw) : raw \in queue }
       IN  test' = IF \E val \in records : val.result.kind # "ok"
                   THEN [test EXCEPT !.pc = "panicked", !.iter = @ + 1]
                   ELSE [test EXCEPT !.pc = "try_recv", !.iter = @ + 1,
                            !.rx = @ \cup { val.handle : val \in records }]
    /\ UNCHANGED last

\* if let Ok(handle) = rx.try_recv(): never blocks; without a handle the
\* loop goes on.
test_try_recv ==
    /\ test.pc = "try_recv"
    /\ IF test.rx = {}
       THEN test' = [test EXCEPT !.pc = "for"]
       ELSE \E handle \in test.rx :
               test' = [test EXCEPT !.pc = "get_result_items",
                           !.rx = @ \ {handle}, !.handle = handle]
    /\ UNCHANGED <<results, queue, delivered, last>>

\* get_result_items(handle).unwrap() and assert!(!result_items.is_empty())
test_get_result_items ==
    /\ test.pc = "get_result_items"
    /\ Fetch(test.handle)
    /\ test' = [test EXCEPT !.pc =
          CASE last'.res.kind = "ok" /\ last'.res.val # <<>> -> "destroy_result"
            [] last'.res.kind = "abort" -> "aborted"
            [] OTHER -> "panicked"]
    /\ UNCHANGED <<queue, delivered>>

\* client.inventory().destroy_result(handle); return
test_destroy_result ==
    /\ test.pc = "destroy_result"
    /\ Release(test.handle)
    /\ test' = [test EXCEPT !.pc = "returned"]
    /\ UNCHANGED <<queue, delivered>>

\* The loop is exhausted: panic!("Timed out waiting for inventory result.")
test_timed_out ==
    /\ test.pc = "for"
    /\ test.iter = LoopBound
    /\ test' = [test EXCEPT !.pc = "timed_out"]
    /\ UNCHANGED <<results, queue, delivered, last>>

\* The service completes the request while the test runs.
TestServiceComplete ==
    /\ test.pc \notin TestEnded
    /\ \E h \in Handles : Complete(h)
    /\ UNCHANGED <<delivered, last, test>>

\* The steps of the test's thread.
TestCaller ==
    \/ test_get_all_items
    \/ test_run_callbacks
    \/ test_try_recv
    \/ test_get_result_items
    \/ test_destroy_result
    \/ test_timed_out

TestNext == TestCaller \/ TestServiceComplete

TestSpec == TestInit /\ [][TestNext]_vars

\* The test's thread keeps running while it has a step to take; nothing is
\* assumed of the service.
TestFairSpec == TestSpec /\ WF_vars(TestCaller)

(* ------------------------------ claims --------------------------------- *)
TwoPhaseOps ==
    {"get_item_definitions_ids", "get_item_definition_property", "get_result_items"}

HandleOps == {"trigger_item_drop", "consume_item", "get_all_items"}

\* The failure kind of each operation, by the enum's names.
FailureKind(op) ==
    CASE op = "load_item_definitions" -> "LoadItemDefinitionsFailed"
      [] op = "get_item_definitions_ids" -> "GetItemDefinitionIDsFailed"
      [] op = "get_item_definition_property" -> "GetItemDefinitionPropertyFailed"
      [] op = "trigger_item_drop" -> "TriggerItemDropFailed"
      [] op = "consume_item" -> "ConsumeItemFailed"
      [] op = "get_all_items" -> "OperationFailed"
      [] op = "get_result_status" -> "GetResultStatusFailed"
      [] op = "get_result_items" -> "GetResultItemsFailed"
      [] OTHER -> "none"

\* Whether the i-th external call of the latest facade call reported failure.
CallFailed(i) ==
    IF last.op = "get_result_status" THEN last.calls[i].status # "k_EResultOK"
    ELSE ~last.calls[i].ok

SomeCallFailed == \E i \in 1..Len(last.calls) : CallFailed(i)

\* C1: whenever the external ConsumeItem call reports failure, consume_item
\* returns the error ConsumeItemFailed, for every item instance and quantity.
C1_ConsumeItemFailed ==
    (last.op = "consume_item" /\ CallFailed(1))
        => last.res = Err("ConsumeItemFailed")

\* C2: on a handle that is not ready-ok at the service (never issued,
\* pending, ready-failed, destroyed, or the sentinel) get_result_items
\* returns GetResultItemsFailed; a get_result_items that succeeded was
\* given a ready-ok handle.
C2_FetchNeedsReadyOk ==
    last.op = "get_result_items" =>
        /\ ~ReadyOk(last.arg[1]) => last.res = Err("GetResultItemsFailed")
        /\ last.res.kind = "ok" => ReadyOk(last.arg[1])

C2_Witness ==
    /\ last.op = "get_result_items"
    /\ StateOf(last.arg[1]) = "pending"
    /\ last.res = Err("GetResultItemsFailed")

\* C3: in get_item_definitions_ids and get_result_items, when phase 1
\* reports N and phase 2 succeeds reporting M, the buffer has capacity at
\* least N and the call returns exactly M elements, those the service wrote
\* in phase 2, in its order.
C3_TwoPhaseFetchExact ==
    (/\ last.op \in {"get_item_definitions_ids", "get_result_items"}
     /\ Len(last.calls) = 2
     /\ last.calls[2].ok)
        => /\ last.cap >= last.calls[1].count
           /\ last.res.kind = "ok"
           /\ Len(last.res.val) = last.calls[2].count
           /\ Len(last.calls[2].buf) = last.calls[2].count
           /\ \A i \in 1..last.calls[2].count :
                 last.res.val[i] =
                    IF last.op = "get_result_items"
                    THEN SteamItemDetails(last.calls[2].buf[i])
                    ELSE last.calls[2].buf[i]

\* C4: in each two-phase query a failed phase 1 returns the operation's own
\* error with no second external call made, and a failed phase 2 returns the
\* same error and no data.
C4_PhaseFailure ==
    (last.op \in TwoPhaseOps /\ Len(last.calls) >= 1) =>
        /\ CallFailed(1) =>
              /\ Len(last.calls) = 1
              /\ last.res = Err(FailureKind(last.op))
        /\ (Len(last.calls) = 2 /\ CallFailed(2)) =>
              last.res = Err(FailureKind(last.op))
        /\ SomeCallFailed => last.res.val = <<>>

C4_Witness ==
    /\ last.op = "get_item_definitions_ids"
    /\ Len(last.calls) = 2
    /\ ~CallFailed(1)
    /\ CallFailed(2)
    /\ last.res = Err("GetItemDefinitionIDsFailed")

\* What the service wrote for a property in phase 2 is the whole value,
\* terminator last.
WroteTerminated ==
    /\ last.op = "get_item_definition_property"
    /\ Len(last.calls) = 2
    /\ last.calls[2].ok
    /\ last.calls[2].count >= 1
    /\ Len(last.calls[2].buf) = last.calls[2].count
    /\ last.calls[2].buf[last.calls[2].count] = 0

BeforeTerminator == SubSeq(last.calls[2].buf, 1, last.calls[2].count - 1)

\* C5: when the bytes the service writes before the terminator are not valid
\* UTF-8, get_item_definition_property returns an error value other than
\* GetItemDefinitionPropertyFailed; it returns no string and does not abort
\* its caller.
C5_DecodingErrorReturned ==
    (WroteTerminated /\ ~IsUtf8(BeforeTerminator))
        => /\ last.res.kind = "err"
           /\ last.res.err # "GetItemDefinitionPropertyFailed"

\* C6: get_item_definition_property with a malformed property name (the
\* empty string, or one holding a NUL) returns InvalidInput and makes no
\* external call.
C6_InvalidInput ==
    (/\ last.op = "get_item_definition_property"
     /\ (last.arg[1] = <<>> \/ ~CString_new(last.arg[1])))
        => /\ last.res = Err("InvalidInput")
           /\ last.calls = <<>>

\* C7: get_result_status succeeds exactly when the external status of the
\* handle is OK, which is exactly on a ready-ok handle; on a pending handle
\* and on a failed one it returns the same GetResultStatusFailed.
C7_StatusCollapses ==
    last.op = "get_result_status" =>
        /\ last.res.kind = "ok" <=> last.calls[1].status = "k_EResultOK"
        /\ last.res.kind = "ok" <=> ReadyOk(last.arg[1])
        /\ last.res.kind = "ok" => last.res.val = <<"k_EResultOK">>
        /\ StateOf(last.arg[1]) \in {"pending", "ready_failed"}
              => last.res = Err("GetResultStatusFailed")

C7_Witness ==
    /\ last.op = "get_result_status"
    /\ StateOf(last.arg[1]) = "ready_failed"
    /\ last.res = Err("GetResultStatusFailed")

\* C8: when phase 2 of get_item_definition_property succeeds with length
\* L >= 1 and the terminator at position L-1, the text returned is exactly
\* the first L-1 bytes the service wrote, and it is returned whenever those
\* bytes are valid UTF-8.
C8_StripsOneTerminator ==
    WroteTerminated =>
        /\ last.len = usize(last.calls[2].count - 1)
        /\ last.res.kind = "ok" => last.res.val = BeforeTerminator
        /\ IsUtf8(BeforeTerminator) => last.res = Ok(BeforeTerminator)

C8_Witness ==
    /\ WroteTerminated
    /\ last.calls[2].count = 2
    /\ last.res = Ok(<<65>>)

\* C9: load_item_definitions, get_item_definitions_ids,
\* get_item_definition_property, trigger_item_drop, get_all_items,
\* get_result_status and get_result_items return, when an external call of
\* theirs reports failure, the failure kind the facade table gives them, and
\* a success value only when no external call reported failure.
C9Ops ==
    {"load_item_definitions", "get_item_definitions_ids",
     "get_item_definition_property", "trigger_item_drop", "get_all_items",
     "get_result_status", "get_result_items"}

C9_FailureKinds ==
    last.op \in C9Ops =>
        /\ SomeCallFailed => last.res = Err(FailureKind(last.op))
        /\ last.res.kind = "ok" => (last.calls # <<>> /\ ~SomeCallFailed)

C9_Witness ==
    /\ last.op = "get_all_items"
    /\ CallFailed(1)
    /\ last.res = Err("OperationFailed")

\* C10: a handle returned as a success value by trigger_item_drop,
\* consume_item or get_all_items is not the invalid sentinel and is pending
\* at the service when it is returned.
C10_ReturnedHandlePending ==
    (last.op \in HandleOps /\ last.res.kind = "ok") =>
        /\ Len(last.res.val) = 1
        /\ last.res.val[1] # k_SteamInventoryResultInvalid
        /\ StateOf(last.res.val[1]) = "pending"

C10_Witness ==
    /\ last.op = "trigger_item_drop"
    /\ last.res.kind = "ok"
    /\ last.res.val[1] \in Handles

\* Whether a record of an external call is one of DestroyResult.
IsDestroyCall(c) == DOMAIN c = {"handle"}

\* C11: destroy_result cannot fail and is never deduplicated: every
\* invocation destroy_result(h) returns without error and makes exactly one
\* external DestroyResult call, for h, whatever state h is in (destroyed
\* already, never issued), and no other operation makes such a call; so the
\* DestroyResult calls for h are as many as the invocations destroy_result(h).
C11_DestroyNeverDeduplicated ==
    /\ last.op = "destroy_result" =>
          /\ last.res = Ok(<<>>)
          /\ last.calls = << [handle |-> last.arg[1]] >>
    /\ last.op # "destroy_result" =>
          \A i \in 1..Len(last.calls) : ~IsDestroyCall(last.calls[i])

\* destroy_result on a handle destroyed before, and on one never issued
C11_Witness ==
    /\ last.op = "destroy_result"
    /\ last.before = "destroyed"
    /\ \E h \in Handles : h # last.arg[1] /\ StateOf(h) = "unissued"

\* C12: a handle stays allocated at the service until the caller passes it
\* to destroy_result: no step other than destroy_result(h) takes a live
\* handle h out of the service's table (not the status check, not the fetch,
\* no error path, no completion, no pump).
C12_OnlyDestroyReleases ==
    [][\A h \in Handles :
          (Live(h) /\ ~Live(h)') =>
              /\ last' # last
              /\ last'.op = "destroy_result"
              /\ last'.arg = <<h>>]_vars

\* the fetch of a handle has failed and the handle is still allocated
C12_Witness ==
    /\ last.op \in {"get_result_items", "get_result_status"}
    /\ last.res.kind = "err"
    /\ last.arg[1] \in Handles
    /\ Live(last.arg[1])

\* C13: get_result_items(h) and get_result_status(h) succeed only after a
\* ResultReady record carrying h was delivered by a pump call.
C13_ReadyDeliveredBeforeFetchable ==
    (/\ last.op \in {"get_result_items", "get_result_status"}
     /\ last.res.kind = "ok")
    => \E val \in delivered : val.handle = last.arg[1]

\* a fetch that succeeded, after the record of its handle was delivered
C13_Witness ==
    /\ last.op = "get_result_items"
    /\ last.res.kind = "ok"
    /\ \E val \in delivered : val.handle = last.arg[1] /\ val.result.kind = "ok"

\* The handles the test has been issued (get_all_items is its only request).
Submitted == { h \in Handles : StateOf(h) # "unissued" }

\* The test is in its loop with a pump call still to come.
Pumping == test.pc \in {"for", "try_recv"} /\ test.iter < LoopBound

\* The service has completed the test's request successfully.
CompletedOk ==
    \E raw \in queue : raw.m_handle \in Submitted /\ raw.m_result = "k_EResultOK"

\* The record of that completion has been delivered.
DeliveredOk ==
    \E val \in delivered : val.handle \in Submitted /\ val.result = Ok(<<>>)

C15_DecodesStatus ==
    /\ \A raw \in queue :
          LET val == SteamInventoryResultReady_from_raw(raw)
          IN  /\ val.handle = raw.m_handle
              /\ val.result = Ok(<<>>) <=> raw.m_result = "k_EResultOK"
              /\ raw.m_result # "k_EResultOK" =>
                    val.result = Err(SteamError_from(raw.m_result))
    /\ \A val \in delivered :
          Live(val.handle) =>
              /\ val.result = Ok(<<>>) <=> CodeOf(val.handle) = "k_EResultOK"
              /\ val.result # Ok(<<>>) =>
                    val.result = Err(SteamError_from(CodeOf(val.handle)))

\* a failure record and a success record were delivered, one more event waits
C15_Witness ==
    /\ \E val \in delivered : val.result.kind = "err" /\ Live(val.handle)
    /\ \E val \in delivered : val.result.kind = "ok" /\ Live(val.handle)

\* C16: the polling loop of LoopBound pump iterations always terminates; no
\* step of it waits for the service (every step of the caller is enabled
\* until the loop has ended); and when no ResultReady record was delivered
\* within those iterations it ends in the timeout, after exactly LoopBound
\* iterations.
C16_PollingLoopTerminates ==
    /\ <>(test.pc \in TestEnded)
    /\ [](test.pc \notin TestEnded => ENABLED TestCaller)
    /\ [](test.iter <= LoopBound)
    /\ []((test.pc \in TestEnded /\ delivered = {}) =>
             (test.pc = "timed_out" /\ test.iter = LoopBound))

\* the loop ran out while the request was still pending
C16_Witness ==
    /\ test.pc = "timed_out"
    /\ delivered = {}
    /\ \E h \in Handles : StateOf(h) = "pending"

\* Whether the step taken is about handle h: a facade call naming h, the
\* call that issued h, or the service's completion or the delivery of h.
StepConcerns(h) ==
    \/ /\ last' # last
       /\ last'.op \in {"get_result_status", "get_result_items", "destroy_result"}
       /\ last'.arg = <<h>>
    \/ /\ last' # last
       /\ last'.op \in HandleOps
       /\ last'.res = Ok(<<h>>)
    \/ /\ last' = last
       /\ \E raw \in (queue' \ queue) \cup (queue \ queue') : raw.m_handle = h

\* C17: handles do not interfere: a step about one handle (a status check,
\* a fetch, a destroy, its issue, its completion, its delivery) leaves the
\* service's entry of every other handle as it was; the outcome of an
\* operation on a handle being a function of that entry alone, it is
\* unchanged too.
C17_HandlesIndependent ==
    [][\A h2 \in Handles : results'[h2] # results[h2] => StepConcerns(h2)]_vars

\* one handle was destroyed while the other was ready
C17_Witness ==
    /\ last.op = "destroy_result"
    /\ last.before = "ready_ok"
    /\ \E h2 \in Handles : h2 # last.arg[1] /\ ReadyOk(h2) /\ ItemsOf(h2) # <<>>

\* C18: after phase 2 has succeeded, the length given to the buffer is
\* within the capacity allocated from the phase-1 count, in each of the
\* three two-phase operations.
C18_LenWithinCapacity ==
    (/\ last.op \in TwoPhaseOps
     /\ Len(last.calls) = 2
     /\ last.calls[2].ok)
    => (last.len.hi = 0 /\ last.len.lo <= last.cap)

\* C19: in get_item_definition_property the phase-2 length minus one never
\* wraps: whatever length a successful phase 2 reports, the length given to
\* the buffer has not wrapped (its high half is 0), and for the length 0 the
\* outcome is a string or a typed error.
C19_LengthNeverWraps ==
    (/\ last.op = "get_item_definition_property"
     /\ Len(last.calls) = 2
     /\ last.calls[2].ok)
    => /\ last.len.hi = 0
       /\ last.calls[2].count = 0 => last.res.kind \in {"ok", "err"}

\* C20: get_result_status and get_result_items only read the handle: a step
\* of either leaves the state and the code of every handle as they were,
\* and the items too unless the service itself replaced them during the
\* fetch; without such a replacement a successful fetch returns the items
\* the handle holds before and after it, converted (so that a second fetch
\* returns the same sequence), and the status check of a ready handle
\* succeeds.
C20_StatusAndFetchReadOnly ==
    [][(/\ last' # last
        /\ last'.op \in {"get_result_status", "get_result_items"})
       => LET h == last'.arg[1]
          IN  /\ \A g \in Handles :
                    /\ results'[g].st = results[g].st
                    /\ results'[g].code = results[g].code
                    /\ results'[g].items # results[g].items =>
                          (g = h /\ last'.op = "get_result_items" /\ ReadyOk(h))
              /\ last'.op = "get_result_status" => results' = results
              /\ (last'.op = "get_result_items" /\ last'.res.kind = "ok"
                    /\ results' = results) =>
                    last'.res.val = [i \in 1..Len(ItemsOf(h)) |->
                                        SteamItemDetails(ItemsOf(h)[i])]
              /\ (last'.op = "get_result_status" /\ ReadyOk(h)) =>
                    last'.res.kind = "ok"]_vars

\* a fetch returned the items of a ready handle, which still holds them
C20_Witness ==
    /\ last.op = "get_result_items"
    /\ last.res.kind = "ok"
    /\ last.res.val # <<>>
    /\ ReadyOk(last.arg[1])
    /\ last.before = ItemsOf(last.arg[1])

=============================================================================
